---- MODULE Spec2Model ----
(***************************************************************************)
(* Model of the two pieces of the repository:                              *)
(*   src/src/matrix.rs       Matrix<T>, multiply, Display::fmt, Debug::fmt *)
(*   src/examples/thread1.rs the producer/consumer demo                    *)
(* The matrix part holds one matrix `m` and the record of the one call     *)
(* made on it (the calls are pure, so one call per run shows them all);    *)
(* the demo part is the thread system of main.                             *)
(* Text is a sequence of one-character strings.                            *)
(***************************************************************************)
EXTENDS Integers, Sequences, FiniteSets

VARIABLES m, last

mvars == <<m, last>>

VARIABLES
    mainPc,      \* where main is: "spawn", "join", "done"
    spawned,     \* the loop variable i of main's for loop
    mainResult,  \* what main returned: "none" until it returns
    prod,        \* each producer thread: "unspawned", "running", "exited"
    prodIdx,     \* the idx each producer's closure was given
    prodResult,  \* what each producer's closure returned: "none" until it returns
    senders,     \* who holds a live Sender: producer threads, and MainTx for main
    rxAlive,     \* the Receiver has not been dropped
    chan,        \* the channel, oldest first: each message with a tag naming its send
    consumer,    \* the consumer thread: "unspawned", "recv", "print", "finished", "panicked"
    cur,         \* the message (with its tag) the consumer is printing, <<>> when none
    enqueued,    \* history: tag and idx of every message sent, in send order
    received     \* history: tag and idx of every message the loop was handed, in order

dvars == <<mainPc, spawned, mainResult, prod, prodIdx, prodResult, senders, rxAlive,
           chan, consumer, cur, enqueued, received>>

vars == <<mvars, dvars>>

NUM_PRODUCERS == 4

\* the producer threads, named by the loop iteration that spawned them
Producers == 0..(NUM_PRODUCERS - 1)

\* the holder of the original tx of line 14, which main never gives away
MainTx == NUM_PRODUCERS

\* let (tx, rx) = mpsc::channel(): main holds both ends, nothing is spawned
DemoStart ==
    /\ mainPc = "spawn"
    /\ spawned = 0
    /\ mainResult = "none"
    /\ prod = [t \in Producers |-> "unspawned"]
    /\ prodIdx = [t \in Producers |-> 0]
    /\ prodResult = [t \in Producers |-> "none"]
    /\ senders = {MainTx}
    /\ rxAlive = TRUE
    /\ chan = <<>>
    /\ consumer = "unspawned"
    /\ cur = <<>>
    /\ enqueued = <<>>
    /\ received = <<>>

(* ------------------------------ bounds -------------------------------- *)
\* rows and cols of the matrices tried range over 0..MaxDim
MaxDim == 3
\* the data tried are seed, seed+step, seed+2*step, ... with these limits
MaxSeed == 1
MaxStep == 1

\* every producer's first send is followed, and MaxRepeats later ones in all
MaxRepeats == 0
\* rand::random::<usize>() is drawn from 0..MaxValue
MaxValue == 1

(* ------------------------- results of a call -------------------------- *)
\* a call returns Ok(v), returns Err(e), or panics (unwinds, no value)
Ok(v) == [tag |-> "Ok", val |-> v]
Err(e) == [tag |-> "Err", val |-> e]
Panic == [tag |-> "Panic", val |-> <<>>]

(* ------------------------------ Matrix -------------------------------- *)
\* Matrix::new: stores the three arguments, no validation
new(rows, cols, data) == [rows |-> rows, cols |-> cols, data |-> data]

\* Vec indexing v[idx] with a usize idx (0-based): in bounds iff idx < v.len()
InBounds(v, idx) == idx < Len(v)
At(v, idx) == v[idx + 1]

\* vec![T::default(); n]
VecDefault(n) == [x \in 1..n |-> 0]

\* "{}" / "{:?}" of an unsigned integer: its decimal digits
RECURSIVE Digits(_)
Digits(n) ==
    LET d == <<"0", "1", "2", "3", "4", "5", "6", "7", "8", "9">>
    IN  IF n < 10 THEN <<d[n + 1]>> ELSE Digits(n \div 10) \o <<d[(n % 10) + 1]>>

\* the flat indices of line 31 (BIdxTransposed: the slip of reading b column-major)
AIdx(a, i, k) == i * a.cols + k
BIdxTransposed(b, k, j) == j * b.rows + k
BIdx(b, k, j) == k * b.cols + j
RIdx(b, i, j) == i * b.cols + j

(* multiply, lines 27-34: the three nested loops, entered at (i, j, k)     *)
(* with the result vector built so far; an out-of-bounds index panics.     *)
RECURSIVE MulLoop(_, _, _, _, _, _)
MulLoop(a, b, i, j, k, result) ==
    IF i >= a.rows THEN Ok(result)
    ELSE IF j >= b.cols THEN MulLoop(a, b, i + 1, 0, 0, result)
    ELSE IF k >= a.cols THEN MulLoop(a, b, i, j + 1, 0, result)
    ELSE IF \/ ~InBounds(a.data, AIdx(a, i, k))
            \/ ~InBounds(b.data, BIdx(b, k, j))
            \/ ~InBounds(result, RIdx(b, i, j))
         THEN Panic
    ELSE MulLoop(a, b, i, j, k + 1,
                 [result EXCEPT ![RIdx(b, i, j) + 1] =
                     @ + At(a.data, AIdx(a, i, k)) * At(b.data, BIdx(b, k, j))])

\* the error of lines 18-24: the message's four arguments
DimError(a, b) == <<a.rows, a.cols, b.rows, b.cols>>

\* length of the result vector allocated at line 27 (ResultLenOfA: the slip of
\* sizing it like a)
ResultLenOfA(a, b) == a.rows * a.cols
ResultLen(a, b) == a.rows * b.cols

\* the check of line 17 (DimsDisagreeCols: the slip of comparing the column counts)
DimsDisagreeCols(a, b) == a.cols # b.cols
DimsDisagree(a, b) == a.cols # b.rows

multiply(a, b) ==
    IF DimsDisagree(a, b) THEN Err(DimError(a, b))
    ELSE LET r == MulLoop(a, b, 0, 0, 0, VecDefault(ResultLen(a, b)))
         IN  IF r.tag = "Panic" THEN Panic
             ELSE Ok([rows |-> a.rows, cols |-> b.cols, data |-> r.val])

(* Display::fmt, lines 56-69: the inner loop over j of row i, then the     *)
(* outer loop over i; buf is the text written so far. cols - 1 and         *)
(* rows - 1 are computed only inside a loop that runs, so the usize        *)
(* subtraction never wraps. (ElemSepAlways: the slip of j < cols.)         *)
ElemSepAlways(self, j) == IF j < self.cols THEN <<" ">> ELSE <<>>
ElemSep(self, j) == IF j < self.cols - 1 THEN <<" ">> ELSE <<>>
RowSep(self, i) == IF i < self.rows - 1 THEN <<",", " ">> ELSE <<>>

RECURSIVE FmtCols(_, _, _, _)
FmtCols(self, i, j, buf) ==
    IF j >= self.cols THEN Ok(buf)
    ELSE IF ~InBounds(self.data, i * self.cols + j) THEN Panic
    ELSE FmtCols(self, i, j + 1,
                 buf \o Digits(At(self.data, i * self.cols + j)) \o ElemSep(self, j))

RECURSIVE FmtRows(_, _, _)
FmtRows(self, i, buf) ==
    IF i >= self.rows THEN Ok(buf)
    ELSE LET row == FmtCols(self, i, 0, buf \o <<"{">>)
         IN  IF row.tag = "Panic" THEN Panic
             ELSE FmtRows(self, i + 1, row.val \o <<"}">> \o RowSep(self, i))

\* (DisplayFmtFromRow1: the slip of starting the outer loop at row 1)
DisplayFmtFromRow1(self) == FmtRows(self, 1, <<>>)
DisplayFmt(self) == FmtRows(self, 0, <<>>)

\* Debug::fmt, lines 78-82: "Matrix(rows={}, cols={}, {})" with self shown by Display
\* (DebugFmtSwapped: the slip of passing cols and rows in the wrong order)
DebugFmtSwapped(self) ==
    LET shown == DisplayFmt(self)
    IN  IF shown.tag = "Panic" THEN Panic
        ELSE Ok(<<"M", "a", "t", "r", "i", "x", "(", "r", "o", "w", "s", "=">>
                \o Digits(self.cols)
                \o <<",", " ", "c", "o", "l", "s", "=">>
                \o Digits(self.rows)
                \o <<",", " ">>
                \o shown.val
                \o <<")">>)
DebugFmt(self) ==
    LET shown == DisplayFmt(self)
    IN  IF shown.tag = "Panic" THEN Panic
        ELSE Ok(<<"M", "a", "t", "r", "i", "x", "(", "r", "o", "w", "s", "=">>
                \o Digits(self.rows)
                \o <<",", " ", "c", "o", "l", "s", "=">>
                \o Digits(self.cols)
                \o <<",", " ">>
                \o shown.val
                \o <<")">>)

(* ------------------------- the matrices tried ------------------------- *)
Data(len, seed, step) == [x \in 1..len |-> seed + (x - 1) * step]

\* data one short of, exactly, and one longer than rows * cols
Lens(rows, cols) == {n \in {rows * cols - 1, rows * cols, rows * cols + 1} : n >= 0}

Shapes == {s \in (0..MaxDim) \X (0..MaxDim) \X (0..(MaxDim * MaxDim + 1)) :
              s[3] \in Lens(s[1], s[2])}

Matrices ==
    {new(s[1], s[2], Data(s[3], seed, step)) : s \in Shapes,
        seed \in 0..MaxSeed, step \in 0..MaxStep}

\* the operands of test_matrix_multiply / test_matrix_display
TestA == new(2, 3, <<1, 2, 3, 4, 5, 6>>)
TestB == new(3, 2, <<1, 2, 3, 4, 5, 6>>)

WellFormed(x) == Len(x.data) = x.rows * x.cols

NoCall == [op |-> "none", arg |-> <<>>, out |-> <<>>]

MInit ==
    /\ m \in Matrices \cup {TestA}
    /\ last = NoCall
    /\ DemoStart

\* format!("{}", m)
CallDisplay ==
    /\ last.op = "none"
    /\ last' = [op |-> "display", arg |-> <<m>>, out |-> DisplayFmt(m)]
    /\ UNCHANGED <<m, dvars>>

\* format!("{:?}", m)
CallDebug ==
    /\ last.op = "none"
    /\ last' = [op |-> "debug", arg |-> <<m>>, out |-> DebugFmt(m)]
    /\ UNCHANGED <<m, dvars>>

\* multiply(&m, &b)
CallMultiply ==
    /\ last.op = "none"
    /\ \E b \in Matrices \cup {TestB} :
          last' = [op |-> "multiply", arg |-> <<m, b>>, out |-> multiply(m, b)]
    /\ UNCHANGED <<m, dvars>>

\* let c = multiply(&a, &b)?; format!("{}", c)   (test_matrix_multiply)
CallDisplayProduct ==
    /\ last.op = "multiply"
    /\ last.out.tag = "Ok"
    /\ last' = [op |-> "display", arg |-> <<last.out.val>>,
                out |-> DisplayFmt(last.out.val)]
    /\ UNCHANGED <<m, dvars>>

MNext == CallDisplay \/ CallDebug \/ CallMultiply \/ CallDisplayProduct

MatrixSpec == MInit /\ [][MNext]_vars

(* =========================== the demo ================================ *)
Values == 0..MaxValue

\* Msg::new
MsgNew(idx, value) == [idx |-> idx, value |-> value]

\* main returning ends the process and every thread with it
ProcessAlive == mainPc # "done"

DInit ==
    /\ DemoStart
    /\ m = new(0, 0, <<>>)
    /\ last = NoCall

\* the idx the closure of iteration i hands to producer (SpawnArgZero: the slip
\* of handing every producer 0)
SpawnArgZero(i) == 0
SpawnArg(i) == i

\* one iteration of main's for loop: clone tx, spawn producer(i, tx)
MainSpawnProducer ==
    /\ mainPc = "spawn"
    /\ spawned < NUM_PRODUCERS
    /\ senders' = senders \cup {spawned}
    /\ prod' = [prod EXCEPT ![spawned] = "running"]
    /\ prodIdx' = [prodIdx EXCEPT ![spawned] = SpawnArg(spawned)]
    /\ spawned' = spawned + 1
    /\ UNCHANGED <<mainPc, mainResult, prodResult, rxAlive, chan, consumer, cur,
                   enqueued, received>>
    /\ UNCHANGED mvars

\* the loop is over: spawn the consumer, which takes rx, and go to join
MainSpawnConsumer ==
    /\ mainPc = "spawn"
    /\ spawned = NUM_PRODUCERS
    /\ consumer' = "recv"
    /\ mainPc' = "join"
    /\ UNCHANGED <<spawned, mainResult, prod, prodIdx, prodResult, senders, rxAlive,
                   chan, cur, enqueued, received>>
    /\ UNCHANGED mvars

\* what main returns once consumer.join() has returned (JoinResultIgnored: the
\* slip of dropping the join error)
JoinResultIgnored(c) == "Ok"
JoinResult(c) == IF c = "panicked" THEN "Err" ELSE "Ok"

\* consumer.join() returns once the consumer thread has ended; map_err and
\* `?` turn a panic into main's error, otherwise main returns Ok(()).
MainJoin ==
    /\ mainPc = "join"
    /\ consumer \in {"finished", "panicked"}
    /\ mainResult' = JoinResult(consumer)
    /\ mainPc' = "done"
    /\ senders' = senders \ {MainTx}
    /\ UNCHANGED <<spawned, prod, prodIdx, prodResult, rxAlive, chan, consumer, cur,
                   enqueued, received>>
    /\ UNCHANGED mvars

Main == MainSpawnProducer \/ MainSpawnConsumer \/ MainJoin

\* history counts: the sends of thread t, and the sends that were not a
\* thread's first
SentBy(t) == Cardinality({p \in 1..Len(enqueued) : enqueued[p].tag.by = t})
Repeats == Len(enqueued) - Cardinality({t \in Producers : SentBy(t) > 0})

\* the tag of the next send of thread t: the thread and the send's number
NextTag(t) == [by |-> t, nth |-> SentBy(t) + 1]

\* what the histories keep of a tagged message: not its value
Logged(e) == [tag |-> e.tag, idx |-> e.msg.idx]

\* tx.send(msg) on a live channel: msg goes behind the messages already there
Enqueue(q, msg) == Append(q, msg)

\* one iteration of producer(idx, tx) in thread t: draw a value, send, sleep.
\* send fails once the Receiver is gone, and `?` then returns the error,
\* which ends the thread and drops its tx.
Producer(t) ==
    /\ ProcessAlive
    /\ prod[t] = "running"
    /\ rxAlive => (SentBy(t) = 0 \/ Repeats < MaxRepeats)
    /\ \E value \in Values :
          IF rxAlive
          THEN LET e == [msg |-> MsgNew(prodIdx[t], value), tag |-> NextTag(t)]
               IN  /\ chan' = Enqueue(chan, e)
                   /\ enqueued' = Append(enqueued, Logged(e))
               /\ UNCHANGED <<prod, prodResult, senders>>
          ELSE /\ prod' = [prod EXCEPT ![t] = "exited"]
               /\ prodResult' = [prodResult EXCEPT ![t] = "Err"]
               /\ senders' = senders \ {t}
               /\ UNCHANGED <<chan, enqueued>>
    /\ UNCHANGED <<mainPc, spawned, mainResult, prodIdx, rxAlive, consumer, cur,
                   received>>
    /\ UNCHANGED mvars

\* rx's iterator hands out the oldest message in the channel (DequeuedNewest:
\* a channel that hands out the newest)
DequeuedNewest(q) == q[Len(q)]
Dequeued(q) == Head(q)
Remaining(q) == Tail(q)

\* rx's iterator returns None when the channel is empty and every Sender is
\* dropped (DisconnectedWhenEmpty: like try_iter, as soon as it is empty)
DisconnectedWhenEmpty == TRUE
Disconnected == senders = {}

\* `for msg in rx`: take the next message; block while the channel is empty
\* and a Sender lives; end the loop, dropping rx, once it is disconnected.
ConsumerRecv ==
    /\ ProcessAlive
    /\ consumer = "recv"
    /\ IF chan # <<>>
       THEN /\ cur' = Dequeued(chan)
            /\ chan' = Remaining(chan)
            /\ received' = Append(received, Logged(Dequeued(chan)))
            /\ consumer' = "print"
            /\ UNCHANGED rxAlive
       ELSE /\ Disconnected
            /\ consumer' = "finished"
            /\ rxAlive' = FALSE
            /\ UNCHANGED <<cur, chan, received>>
    /\ UNCHANGED <<mainPc, spawned, mainResult, prod, prodIdx, prodResult, senders,
                   enqueued>>
    /\ UNCHANGED mvars

\* println!("Consumer: {:?}", msg): prints, or panics when stdout cannot be
\* written; the panic unwinds the thread and drops rx with what it holds.
ConsumerPrint ==
    /\ ProcessAlive
    /\ consumer = "print"
    /\ \E written \in BOOLEAN :
          IF written
          THEN /\ consumer' = "recv"
               /\ UNCHANGED <<rxAlive, chan>>
          ELSE /\ consumer' = "panicked"
               /\ rxAlive' = FALSE
               /\ chan' = <<>>
    /\ cur' = <<>>
    /\ UNCHANGED <<mainPc, spawned, mainResult, prod, prodIdx, prodResult, senders,
                   enqueued, received>>
    /\ UNCHANGED mvars

Consumer == ConsumerRecv \/ ConsumerPrint

DNext == Main \/ Consumer \/ \E t \in Producers : Producer(t)

DemoSpec == DInit /\ [][DNext]_vars

\* the OS scheduler lets every thread that can take a step take one
Fairness ==
    /\ WF_vars(Main)
    /\ WF_vars(Consumer)
    /\ \A t \in Producers : WF_vars(Producer(t))

DemoFairSpec == DemoSpec /\ Fairness

(* ======================= properties of the demo ====================== *)
\* C6: what the consumer has received is always a prefix of what was
\* enqueued, in enqueue order across all producers; while the Receiver
\* lives, what was enqueued is exactly what was received followed by what
\* is still in the channel (nothing lost, duplicated or reordered).
C6_FifoPrefix ==
    /\ Len(received) <= Len(enqueued)
    /\ \A p \in 1..Len(received) : received[p] = enqueued[p]
    /\ rxAlive => enqueued = received \o [p \in 1..Len(chan) |-> Logged(chan[p])]

C6_Witness ==
    /\ Len(received) >= 2
    /\ received[1].tag.by > received[2].tag.by
    /\ Len(chan) >= 1

\* every message received carries an idx in [0, 4) that is the index of the
\* producer thread that sent it
IdxOfSender ==
    \A p \in 1..Len(received) :
        /\ received[p].idx \in Producers
        /\ received[p].idx = received[p].tag.by

AllDelivered ==
    /\ Len(received) >= NUM_PRODUCERS
    /\ \A idx \in Producers : \E p \in 1..Len(received) : received[p].idx = idx

NoProducerExited ==
    \A t \in Producers : prod[t] # "exited" /\ prodResult[t] = "none"

MainResultIsJoinResult ==
    /\ mainPc # "done" => mainResult = "none"
    /\ mainPc = "done" => mainResult \in {"Ok", "Err"}
    /\ mainResult = "Err" <=> (mainPc = "done" /\ consumer = "panicked")

ProducerFailureIsLocal ==
    \A t \in Producers :
        (prod[t] # "exited" /\ prod'[t] = "exited") =>
            /\ ~rxAlive
            /\ prodResult'[t] = "Err"
            /\ \A u \in Producers \ {t} :
                  prod'[u] = prod[u] /\ prodResult'[u] = prodResult[u]
            /\ consumer' = consumer
            /\ mainPc' = mainPc
            /\ mainResult' = mainResult

\* C10: main returns an error exactly when joining the consumer fails, that
\* is when the consumer panicked; a producer whose send fails returns an
\* error that ends only its own thread: the step changes neither main's
\* result nor the other producers nor the consumer.
C10_AsymmetricErrors == []MainResultIsJoinResult /\ [][ProducerFailureIsLocal]_vars

C10_Witness ==
    /\ mainPc = "done" /\ mainResult = "Err"
    /\ prodResult[0] = "Err"
    /\ prod[1] = "running" /\ prodResult[1] = "none"

(* ===================== properties of the matrix part =================== *)
Arg1 == last.arg[1]
Arg2 == last.arg[2]

\* C1: multiply(a, b) with a.cols # b.rows returns the error carrying a.rows,
\* a.cols, b.rows, b.cols and no matrix; with a.cols = b.rows and well-formed
\* data it returns Ok.
C1_DimensionMismatch ==
    last.op = "multiply" =>
        /\ Arg1.cols # Arg2.rows =>
              /\ last.out.tag = "Err"
              /\ last.out.val = <<Arg1.rows, Arg1.cols, Arg2.rows, Arg2.cols>>
        /\ (Arg1.cols = Arg2.rows /\ WellFormed(Arg1) /\ WellFormed(Arg2)) =>
              last.out.tag = "Ok"

C1_Witness ==
    /\ last.op = "multiply"
    /\ Arg1 = TestA /\ Arg2.rows = 2 /\ Arg2.cols = 3 /\ WellFormed(Arg2)
    /\ last.out.tag = "Err"
    /\ last.out.val = <<2, 3, 2, 3>>

\* the sum over k in 0..n-1 of a[i,k] * b[k,j], from zero
RECURSIVE DotSum(_, _, _, _, _)
DotSum(a, b, i, j, n) ==
    IF n = 0 THEN 0
    ELSE DotSum(a, b, i, j, n - 1)
         + a.data[i * a.cols + (n - 1) + 1] * b.data[(n - 1) * b.cols + j + 1]

\* C2: for well-formed a (r x n) and b (n x c), element (i, j) of
\* multiply(a, b), at flat index i*c + j, is the sum over k of
\* a.data[i*n + k] * b.data[k*c + j]; the test's operands give 22 28 49 64.
C2_ElementIsDotProduct ==
    (/\ last.op = "multiply"
     /\ WellFormed(Arg1) /\ WellFormed(Arg2) /\ Arg1.cols = Arg2.rows) =>
        /\ last.out.tag = "Ok"
        /\ \A i \in 0..(Arg1.rows - 1), j \in 0..(Arg2.cols - 1) :
              /\ i * Arg2.cols + j < Len(last.out.val.data)
              /\ last.out.val.data[i * Arg2.cols + j + 1]
                    = DotSum(Arg1, Arg2, i, j, Arg1.cols)
        /\ (Arg1 = TestA /\ Arg2 = TestB) => last.out.val.data = <<22, 28, 49, 64>>

C2_Witness ==
    /\ last.op = "multiply"
    /\ Arg1 = TestA /\ Arg2 = TestB
    /\ last.out.tag = "Ok"
    /\ last.out.val.data = <<22, 28, 49, 64>>

\* C3: when multiply(a, b) succeeds the result has rows = a.rows,
\* cols = b.cols and len(data) = a.rows * b.cols = rows * cols, zero
\* dimensions included.
C3_ResultShape ==
    (last.op = "multiply" /\ last.out.tag = "Ok") =>
        /\ last.out.val.rows = Arg1.rows
        /\ last.out.val.cols = Arg2.cols
        /\ Len(last.out.val.data) = Arg1.rows * Arg2.cols
        /\ WellFormed(last.out.val)

C3_Witness ==
    /\ last.op = "multiply" /\ last.out.tag = "Ok"
    /\ Arg1.rows = 2 /\ Arg1.cols = 0 /\ Arg2.cols = 3
    /\ last.out.val = [rows |-> 2, cols |-> 3, data |-> <<0, 0, 0, 0, 0, 0>>]

\* the texts xs[1], ..., xs[n] with sep between neighbours
RECURSIVE Join(_, _)
Join(xs, sep) ==
    IF Len(xs) = 0 THEN <<>>
    ELSE IF Len(xs) = 1 THEN xs[1]
    ELSE xs[1] \o sep \o Join(Tail(xs), sep)

\* row i (from 1) of x as a brace group
Group(x, i) ==
    <<"{">> \o Join([j \in 1..x.cols |-> Digits(x.data[(i - 1) * x.cols + j])], <<" ">>)
            \o <<"}">>

Rendering(x) == Join([i \in 1..x.rows |-> Group(x, i)], <<",", " ">>)

Count(text, ch) == Cardinality({p \in 1..Len(text) : text[p] = ch})

C5_DebugEmbedsDisplay ==
    last.op = "debug" =>
        LET shown == DisplayFmt(Arg1)
        IN  /\ shown.tag = "Panic" => last.out.tag = "Panic"
            /\ shown.tag = "Ok" =>
                  /\ last.out.tag = "Ok"
                  /\ last.out.val =
                        <<"M", "a", "t", "r", "i", "x", "(">>
                        \o <<"r", "o", "w", "s", "=">> \o Digits(Arg1.rows)
                        \o <<",", " ">>
                        \o <<"c", "o", "l", "s", "=">> \o Digits(Arg1.cols)
                        \o <<",", " ">> \o shown.val \o <<")">>
            /\ Arg1 = TestA =>
                  last.out.val =
                        <<"M", "a", "t", "r", "i", "x", "(", "r", "o", "w", "s", "=",
                          "2", ",", " ", "c", "o", "l", "s", "=", "3", ",", " ",
                          "{", "1", " ", "2", " ", "3", "}", ",", " ",
                          "{", "4", " ", "5", " ", "6", "}", ")">>

C5_Witness ==
    /\ last.op = "debug" /\ Arg1 = TestA
    /\ last.out.tag = "Ok"
    /\ Len(last.out.val) = 40

\* C9 as stated: every matrix with len(data) # rows*cols makes display, or
\* some multiply it takes part in with a well-formed partner, index its
\* buffer out of bounds.
C9_MismatchAlwaysPanics ==
    (last.op = "display" /\ ~WellFormed(Arg1)) =>
        \/ last.out.tag = "Panic"
        \/ \E b \in Matrices :
              /\ WellFormed(b)
              /\ multiply(Arg1, b).tag = "Panic" \/ multiply(b, Arg1).tag = "Panic"

\* C9 amended: new stores any (rows, cols, data); display indexes out of
\* bounds exactly when len(data) < rows*cols, and a multiply with agreeing
\* inner dimensions exactly when its loops run (a.rows, a.cols, b.cols > 0)
\* and an operand has len(data) < rows*cols; longer data is never indexed
\* out of bounds, the extra elements are ignored.
C9_ShortDataPanics ==
    /\ last.op = "display" =>
          /\ last.out.tag = "Panic" <=> Len(Arg1.data) < Arg1.rows * Arg1.cols
          /\ last.out.tag = "Ok" =>
                last.out.val = Rendering([Arg1 EXCEPT
                    !.data = SubSeq(@, 1, Arg1.rows * Arg1.cols)])
    /\ (last.op = "multiply" /\ Arg1.cols = Arg2.rows) =>
          (last.out.tag = "Panic" <=>
              /\ Arg1.rows > 0 /\ Arg1.cols > 0 /\ Arg2.cols > 0
              /\ \/ Len(Arg1.data) < Arg1.rows * Arg1.cols
                 \/ Len(Arg2.data) < Arg2.rows * Arg2.cols)

C9_Witness ==
    /\ last.op = "display"
    /\ Arg1.rows = 2 /\ Arg1.cols = 2 /\ Len(Arg1.data) = 3
    /\ last.out.tag = "Panic"
====
